---- MODULE Spec2Model ----
(***************************************************************************)
(* Model of services/auth-service-rust/src/main.rs: the login, register    *)
(* and verify handlers, create_jwt_token / verify_jwt_token, and the       *)
(* library calls they make (bcrypt hash/verify, jsonwebtoken               *)
(* encode/decode, env::var, Utc::now, Uuid::new_v4).                       *)
(*                                                                         *)
(* Strings that the code inspects (the Authorization header, the token     *)
(* wire format) are sequences of elements: a character is [ch |-> c], a    *)
(* base64url segment is [b64 |-> x] with x the bytes it decodes to.        *)
(***************************************************************************)
EXTENDS Integers, Sequences, FiniteSets, TLC

\* ---------------------------------------------------------------- bounds
MaxReq == 2
MaxIssued == 2
MaxTicks == 2
MaxSalt == 1
StartTime == 1700000000

\* ------------------------------------------------------- program constants
\* Duration::hours(24), in seconds
ValidityWindowHours == 24
ValidityWindow == ValidityWindowHours * 3600
\* bcrypt::DEFAULT_COST
DEFAULT_COST == 12
\* fallback of env::var("JWT_SECRET")
DefaultSecret == "your-secret-key"

\* Option<T>: None is <<>>, Some(x) is <<x>>
None == <<>>
Some(x) == <<x>>

\* ------------------------------------------------------------ wire strings
Chars(s) == [i \in DOMAIN s |-> [ch |-> s[i]]]
Dot == [ch |-> "."]
Seg(x) == [b64 |-> x]
BearerPrefix == Chars(<<"B", "e", "a", "r", "e", "r", " ">>)

\* fault-injected variant: the prefix is taken by length alone, its characters not compared
StripPrefixByLength(s, prefix) ==
    IF Len(s) >= Len(prefix)
    THEN Some(SubSeq(s, Len(prefix) + 1, Len(s)))
    ELSE None

\* str::strip_prefix: Some(rest) when the string starts with the prefix
StripPrefix(s, prefix) ==
    IF Len(s) >= Len(prefix) /\ SubSeq(s, 1, Len(prefix)) = prefix
    THEN Some(SubSeq(s, Len(prefix) + 1, Len(s)))
    ELSE None

\* ------------------------------------------------------------- environment
\* The process environment: JWT_SECRET is unset (None) or set (Some(value)).
EnvValues == {None, Some(""), Some("prod-secret")}

\* fault-injected variant: the signer falls back to another default than the verifier
SignSecretOtherDefault(e) == IF e = None THEN "change-me" ELSE e[1]

\* env::var("JWT_SECRET").unwrap_or_else(|_| "your-secret-key") in create_jwt_token
SignSecret(e) == IF e = None THEN DefaultSecret ELSE e[1]

\* fault-injected variant: the verifier falls back to another default than the signer
VerifySecretOtherDefault(e) == IF e = None THEN "change-me" ELSE e[1]

\* the same read in verify_jwt_token
VerifySecret(e) == IF e = None THEN DefaultSecret ELSE e[1]

\* ---------------------------------------------------------------- bcrypt
NulPassword == "nul\\0byte"
Passwords == {"admin123", "wrong", NulPassword}
Salts == 1 .. MaxSalt

\* bcrypt::hash(password, cost): Ok(hash string) with a random salt; builds of
\* the crate that refuse a password holding a NUL byte return Err instead.
BcryptHash(password, cost) ==
    { [ok |-> TRUE, hash |-> [cost |-> cost, salt |-> s, digest_of |-> password]]
        : s \in Salts }
    \cup (IF password = NulPassword
          THEN {[ok |-> FALSE, hash |-> [cost |-> cost, salt |-> 0, digest_of |-> ""]]}
          ELSE {})

\* bcrypt::verify(password, hash): Ok(bool), or Err for a refused password
BcryptVerify(password, h) ==
    {[ok |-> TRUE, val |-> (h.digest_of = password)]}
    \cup (IF password = NulPassword THEN {[ok |-> FALSE, val |-> FALSE]} ELSE {})

\* fault-injected variant: unwrap_or(true): an erroring verification counts as a match
UnwrapOrTrue(r) == IF r.ok THEN r.val ELSE TRUE

\* Result<bool, _>::unwrap_or(false)
UnwrapOrFalse(r) == IF r.ok THEN r.val ELSE FALSE

\* ------------------------------------------------------------- user data
Emails == {"admin@crown.com", "new@x.com", ""}
NoUser == [id |-> "", email |-> "", first_name |-> "", last_name |-> "",
           password_hash |-> [cost |-> 0, salt |-> 0, digest_of |-> ""],
           role |-> ""]

\* simulate_user_lookup: the hardcoded account, hashed afresh on every lookup
simulate_user_lookup(email) ==
    IF email = "admin@crown.com"
    THEN { Some([id |-> "admin-id", email |-> email, first_name |-> "Admin",
                 last_name |-> "User", password_hash |-> r.hash, role |-> "admin"])
             : r \in {x \in BcryptHash("admin123", DEFAULT_COST) : x.ok} }
    ELSE {None}

\* Uuid::new_v4().to_string(): the n-th identifier drawn by the process
UuidPool == <<"uuid-1", "uuid-2", "uuid-3", "uuid-4">>
Uuid(n) == UuidPool[n]

\* the UserInfo view of a UserData (no password_hash)
UserInfo(user) ==
    [id |-> user.id, email |-> user.email, first_name |-> user.first_name,
     last_name |-> user.last_name, role |-> user.role]

\* ------------------------------------------------------------------- JWT
\* Header::default(): {"typ":"JWT","alg":"HS256"}
HeaderDefault == [typ |-> "JWT", alg |-> "HS256"]
ClaimFields == {"sub", "exp", "iat", "user_id", "email", "role"}
NoClaims == [sub |-> "", exp |-> 0, iat |-> 0, user_id |-> "", email |-> "", role |-> ""]

\* the Claims literal of create_jwt_token
BuildClaims(user, expiration, issued) ==
    [sub |-> user.id, exp |-> expiration, iat |-> issued,
     user_id |-> user.id, email |-> user.email, role |-> user.role]

\* HMAC-SHA256 of the message under the key, base64url-encoded
HmacSign(message, key) == <<Seg([mac |-> key, over |-> message])>>

\* jsonwebtoken::encode: b64(header) "." b64(claims) "." b64(hmac)
\* EncodingKey::from_secret takes any byte string, the empty one included,
\* and serialising a Claims of strings and integers cannot fail.
JwtEncode(header, claims, key) ==
    LET message == <<Seg(header), Dot, Seg(claims)>>
    IN  [ok |-> TRUE, token |-> message \o <<Dot>> \o HmacSign(message, key)]

\* fault-injected variant: the signature is not compared at all
HmacVerifySkipped(signature, message, key) == TRUE

\* crypto::verify for HS256: sign the message again and compare the strings
HmacVerify(signature, message, key) == signature = HmacSign(message, key)

\* the index of the last "." of a string, 0 when it has none (rsplitn(2, '.'))
LastDot(s) ==
    LET dots == {i \in 1 .. Len(s) : s[i] = Dot}
    IN  IF dots = {} THEN 0 ELSE CHOOSE i \in dots : \A j \in dots : j <= i

\* a segment that base64-decodes to a JSON object
IsJsonSeg(s) ==
    /\ Len(s) = 1
    /\ "b64" \in DOMAIN s[1]
    /\ "mac" \notin DOMAIN s[1].b64

VOk(claims) == [ok |-> TRUE, claims |-> claims, err |-> "none"]
VErr(kind) == [ok |-> FALSE, claims |-> NoClaims, err |-> kind]

\* fault-injected variant: the token is already refused at exp = now - leeway
ExpiredAtInclusive(exp, t, lw) == exp <= t - lw

\* the expiry test of jsonwebtoken's validate(): the token is refused when
\* exp < now - leeway
ExpiredAt(exp, t, lw) == exp < t - lw

\* jsonwebtoken::decode::<Claims> under Validation::new(Algorithm::HS256)
JwtDecode(token, key, lw, t) ==
    LET d1 == LastDot(token) IN
    IF d1 = 0 THEN VErr("InvalidToken") ELSE
    LET signature == SubSeq(token, d1 + 1, Len(token))
        message == SubSeq(token, 1, d1 - 1)
        d2 == LastDot(message) IN
    IF d2 = 0 THEN VErr("InvalidToken") ELSE
    LET payload == SubSeq(message, d2 + 1, Len(message))
        header == SubSeq(message, 1, d2 - 1) IN
    IF ~IsJsonSeg(header) THEN VErr("Base64")
    ELSE IF "alg" \notin DOMAIN header[1].b64 THEN VErr("Json")
    ELSE IF header[1].b64.alg # "HS256" THEN VErr("InvalidAlgorithm")
    ELSE IF ~HmacVerify(signature, message, key) THEN VErr("InvalidSignature")
    ELSE IF ~IsJsonSeg(payload) THEN VErr("Base64")
    ELSE IF ~(ClaimFields \subseteq DOMAIN payload[1].b64) THEN VErr("Json")
    ELSE IF ExpiredAt(payload[1].b64.exp, t, lw) THEN VErr("ExpiredSignature")
    ELSE VOk([f \in ClaimFields |-> payload[1].b64[f]])

\* the default leeway of Validation::new: 0 seconds in jsonwebtoken up to 7,
\* 60 seconds from 8 on; the build fixes which
Leeways == {0, 60}

\* create_jwt_token, given the secret and the two clock values it read
create_jwt_token(user, secret, expiration, issued) ==
    LET r == JwtEncode(HeaderDefault, BuildClaims(user, expiration, issued), secret)
    IN  IF r.ok THEN [ok |-> TRUE, token |-> r.token]
        ELSE [ok |-> FALSE, token |-> <<>>]

\* verify_jwt_token, given the secret and the clock value decode() read
verify_jwt_token(token, secret, lw, t) == JwtDecode(token, secret, lw, t)

\* ------------------------------------------------------------- responses
NoResp == [kind |-> "none"]
\* AuthResponse with token: None, user: None
AuthFailure(msg) ==
    [kind |-> "auth", success |-> FALSE, message |-> msg, token |-> None, user |-> None]
\* AuthResponse with token: Some(token), user: Some(UserInfo)
AuthSuccess(msg, token, user) ==
    [kind |-> "auth", success |-> TRUE, message |-> msg,
     token |-> Some(token), user |-> Some(UserInfo(user))]
\* the Err of the handler: warp::reject::custom(AuthError::TokenCreationError)
Rejection == [kind |-> "rejection", cause |-> "TokenCreationError"]
\* hash(..).unwrap() on an Err: the handler's task panics, no reply is built
Panicked == [kind |-> "panic"]
\* the replies of handle_verify_token
VerifyValid(claims) ==
    [kind |-> "verify", valid |-> TRUE, user_id |-> claims.user_id,
     email |-> claims.email, role |-> claims.role, expires_at |-> claims.exp]
VerifyInvalid(msg) == [kind |-> "verify", valid |-> FALSE, error |-> msg]

\* ------------------------------------------------------------------ state
VARIABLES
    env,        \* JWT_SECRET of the process environment
    leeway,     \* the default leeway of the jsonwebtoken build
    now,        \* the wall clock, seconds since the epoch
    ticks,      \* how often the clock has advanced
    uuids,      \* how many identifiers Uuid::new_v4 has drawn
    nIssued,    \* how many tokens have been handed out
    held,       \* the latest token handed out, as the client holds it
    reqs        \* the requests in flight, one per slot

vars == <<env, leeway, now, ticks, uuids, nIssued, held, reqs>>

Slots == 1 .. MaxReq
NotCalled == [ok |-> FALSE, claims |-> NoClaims, err |-> "not-called"]
NoPwRes == [ok |-> FALSE, val |-> FALSE]
IdleReq ==
    [pc |-> "idle", op |-> "none", email |-> "", password |-> "", user |-> NoUser,
     secret |-> "", exp |-> 0, header |-> <<>>, token |-> <<>>,
     how |-> "", forgeKey |-> "", claims0 |-> NoClaims,
     pwres |-> NoPwRes, vnow |-> 0, vres |-> NotCalled, resp |-> NoResp]

Init ==
    /\ env \in EnvValues
    /\ leeway \in Leeways
    /\ now = StartTime
    /\ ticks = 0
    /\ uuids = 0
    /\ nIssued = 0
    /\ held = None
    /\ reqs = [s \in Slots |-> IdleReq]

\* tokens already issued plus those the requests in flight will issue
Issuing == {s \in Slots : reqs[s].pc = "jwt_iat"}
CanIssue == nIssued + Cardinality(Issuing) < MaxIssued

\* A finished request does nothing more, so its reply is observed (Finish)
\* before any other step is taken: every interleaving of the handlers' steps
\* remains, each seen with at most one reply outstanding.
NoneDone == \A s \in Slots : reqs[s].pc # "done"

\* A new request takes the lowest free slot (slots are names, not resources).
FreeSlot(s) == reqs[s].pc = "idle" /\ \A t \in Slots : t < s => reqs[t].pc # "idle"

\* -------------------------------------------------------- create_jwt_token
\* the expiry create_jwt_token computes from its first clock read
Expiration(t) == t + ValidityWindow

\* create_jwt_token up to its second clock read: reads JWT_SECRET, reads the
\* clock for exp
JwtBegin(r, user) ==
    [r EXCEPT !.pc = "jwt_iat", !.user = user, !.secret = SignSecret(env),
              !.exp = Expiration(now)]

\* ------------------------------------------------------------ handle_login
\* handle_login: lookup, bcrypt verify, the two failure replies; on a match
\* it enters create_jwt_token
StartLogin(s, email, password) ==
    /\ FreeSlot(s)
    /\ NoneDone
    /\ \E found \in simulate_user_lookup(email) :
         LET r == [IdleReq EXCEPT !.op = "login", !.email = email,
                                  !.password = password]
         IN  IF found = None
             THEN reqs' = [reqs EXCEPT ![s] =
                      [r EXCEPT !.pc = "done", !.resp = AuthFailure("User not found")]]
             ELSE \E v \in BcryptVerify(password, found[1].password_hash) :
                      IF UnwrapOrFalse(v)
                      THEN /\ CanIssue
                           /\ reqs' = [reqs EXCEPT ![s] =
                                  JwtBegin([r EXCEPT !.pwres = v], found[1])]
                      ELSE reqs' = [reqs EXCEPT ![s] =
                               [r EXCEPT !.pc = "done", !.pwres = v,
                                         !.resp = AuthFailure("Invalid credentials")]]
    /\ UNCHANGED <<env, leeway, now, ticks, uuids, nIssued, held>>

\* --------------------------------------------------------- handle_register
\* fault-injected variant: a registration under a known email inherits that account's role
RegisterRoleOfExisting(email) ==
    IF email = "admin@crown.com" THEN "admin" ELSE "user"

\* the role handle_register gives the new UserData
RegisterRole(email) == "user"

\* handle_register: hash, uuid, UserData; then it enters create_jwt_token
StartRegister(s, email, password) ==
    /\ FreeSlot(s)
    /\ NoneDone
    /\ \E h \in BcryptHash(password, DEFAULT_COST) :
         LET r == [IdleReq EXCEPT !.op = "register", !.email = email,
                                  !.password = password]
         IN  IF ~h.ok
             THEN /\ reqs' = [reqs EXCEPT ![s] =
                         [r EXCEPT !.pc = "done", !.resp = Panicked]]
                  /\ UNCHANGED uuids
             ELSE /\ CanIssue
                  /\ uuids' = uuids + 1
                  /\ reqs' = [reqs EXCEPT ![s] =
                         JwtBegin(r, [id |-> Uuid(uuids + 1), email |-> email,
                                      first_name |-> "First", last_name |-> "Last",
                                      password_hash |-> h.hash,
                                      role |-> RegisterRole(email)])]
    /\ UNCHANGED <<env, leeway, now, ticks, nIssued, held>>

\* create_jwt_token from its second clock read (iat) on, then the rest of the
\* handler: "?" on the result, the success reply
JwtSign(s) ==
    /\ NoneDone
    /\ reqs[s].pc = "jwt_iat"
    /\ LET r == reqs[s]
           t == create_jwt_token(r.user, r.secret, r.exp, now)
           msg == IF r.op = "login" THEN "Login successful"
                  ELSE "Registration successful"
       IN  IF t.ok
           THEN /\ reqs' = [reqs EXCEPT ![s] =
                       [r EXCEPT !.pc = "done",
                                 !.resp = AuthSuccess(msg, t.token, r.user)]]
                /\ nIssued' = nIssued + 1
                /\ held' = Some([token |-> t.token, op |-> r.op, secret |-> r.secret,
                                 email |-> r.email, pwres |-> r.pwres,
                                 claims |-> BuildClaims(r.user, r.exp, now)])
           ELSE /\ reqs' = [reqs EXCEPT ![s] =
                       [r EXCEPT !.pc = "done", !.resp = Rejection]]
                /\ UNCHANGED <<nIssued, held>>
    /\ UNCHANGED <<env, leeway, now, ticks, uuids>>

\* ----------------------------------------------------- handle_verify_token
\* What a client can put in the Authorization header: fixed strings, and
\* strings made from the token it holds (how: the way it was made; forgeKey:
\* the key a re-signed token was signed with; claims0: the claims issued).
AttackerKeys == {"attacker-key", DefaultSecret}
HeaderInput(how, header, forgeKey, claims0) ==
    [how |-> how, header |-> header, forgeKey |-> forgeKey, claims0 |-> claims0]
FlipRole(c) == [c EXCEPT !.role = IF @ = "admin" THEN "user" ELSE "admin"]
LowerBearer == Chars(<<"b", "e", "a", "r", "e", "r", " ">>)
FixedHeaders ==
    { HeaderInput("no-prefix", Chars(<<"T", "o", "k", "e", "n", " ", "a", "b", "c">>),
                  "", NoClaims),
      HeaderInput("no-prefix", LowerBearer \o Chars(<<"x">>), "", NoClaims),
      HeaderInput("no-prefix", Chars(<<"B", "e", "a", "r", "e", "r">>), "", NoClaims),
      HeaderInput("garbage", BearerPrefix \o Chars(<<"a", "b", "c">>), "", NoClaims) }
TokenHeaders(i) ==
    LET t == i.token
        n == Len(t)
    IN  { HeaderInput("genuine", BearerPrefix \o t, "", i.claims),
          HeaderInput("no-prefix", LowerBearer \o t, "", i.claims),
          HeaderInput("payload",
                      BearerPrefix \o <<t[1], Dot, Seg(FlipRole(i.claims))>>
                                   \o SubSeq(t, 4, n), "", i.claims),
          HeaderInput("signature",
                      BearerPrefix \o SubSeq(t, 1, n - 1)
                                   \o <<Seg([t[n].b64 EXCEPT !.mac = "flipped"])>>,
                      "", i.claims),
          HeaderInput("truncated", BearerPrefix \o SubSeq(t, 1, 3), "", i.claims) }
        \cup { HeaderInput("forged",
                    BearerPrefix \o JwtEncode(HeaderDefault, FlipRole(i.claims), k).token,
                    k, i.claims) : k \in AttackerKeys }
HeaderInputs == FixedHeaders \cup (IF held = None THEN {} ELSE TokenHeaders(held[1]))

\* handle_verify_token: strip_prefix; verify_jwt_token (reads JWT_SECRET,
\* decode reads the clock); the three replies
HandleVerify(s, h) ==
    /\ FreeSlot(s)
    /\ NoneDone
    /\ LET r == [IdleReq EXCEPT !.pc = "done", !.op = "verify", !.header = h.header,
                                !.how = h.how, !.forgeKey = h.forgeKey,
                                !.claims0 = h.claims0]
           stripped == StripPrefix(h.header, BearerPrefix)
       IN  IF stripped # None
           THEN LET v == verify_jwt_token(stripped[1], VerifySecret(env), leeway, now)
                IN  reqs' = [reqs EXCEPT ![s] =
                        [r EXCEPT !.token = stripped[1], !.secret = VerifySecret(env),
                                  !.vnow = now, !.vres = v,
                                  !.resp = IF v.ok THEN VerifyValid(v.claims)
                                           ELSE VerifyInvalid("Invalid or expired token")]]
           ELSE reqs' = [reqs EXCEPT ![s] =
                    [r EXCEPT !.resp = VerifyInvalid("Invalid authorization header format")]]
    /\ UNCHANGED <<env, leeway, now, ticks, uuids, nIssued, held>>

\* the reply is sent and the request is over
Finish(s) ==
    /\ reqs[s].pc = "done"
    /\ reqs' = [reqs EXCEPT ![s] = IdleReq]
    /\ UNCHANGED <<env, leeway, now, ticks, uuids, nIssued, held>>

\* the wall clock advances
TickDeltas == {1, ValidityWindow, ValidityWindow + 61}
Tick(d) ==
    /\ NoneDone
    /\ ticks < MaxTicks
    /\ now' = now + d
    /\ ticks' = ticks + 1
    /\ UNCHANGED <<env, leeway, uuids, nIssued, held, reqs>>

Next ==
    \/ \E s \in Slots, e \in Emails, p \in Passwords : StartLogin(s, e, p)
    \/ \E s \in Slots, e \in Emails, p \in Passwords : StartRegister(s, e, p)
    \/ \E s \in Slots : JwtSign(s)
    \/ \E s \in Slots, h \in HeaderInputs : HandleVerify(s, h)
    \/ \E s \in Slots : Finish(s)
    \/ \E d \in TickDeltas : Tick(d)

Spec == Init /\ [][Next]_vars

\* ================================================================ claims
Done(s, op) == reqs[s].pc = "done" /\ reqs[s].op = op
PwOk == [ok |-> TRUE, val |-> TRUE]
MalformedKinds == {"InvalidToken", "Base64", "Json"}

\* C1: a finished login has one of three outcomes, decided by the lookup and
\* the password check: no record -> "User not found"; a record whose hash
\* the password does not verify against (an erroring verification included)
\* -> "Invalid credentials"; a verifying password -> success with a token.
\* Both failures are success=false with token and user null, and a login
\* token is only ever issued after bcrypt verify returned Ok(true).
C1_LoginOutcomes ==
    /\ \A s \in Slots : Done(s, "login") =>
         LET r == reqs[s]
             found == simulate_user_lookup(r.email)
             verifies == \E u \in found : u # None /\
                            PwOk \in BcryptVerify(r.password, u[1].password_hash)
         IN  /\ r.resp.kind = "auth"
             /\ found = {None} => r.resp = AuthFailure("User not found")
             /\ (found # {None} /\ ~verifies) =>
                    r.resp = AuthFailure("Invalid credentials")
             /\ verifies => (r.resp.success /\ r.resp.token # None)
             /\ ~r.resp.success => (r.resp.token = None /\ r.resp.user = None)
             /\ r.resp.success => r.pwres = PwOk
    /\ \A s \in Slots : (reqs[s].op = "login" /\ reqs[s].pc = "jwt_iat") =>
         reqs[s].pwres = PwOk
    /\ (held # None /\ held[1].op = "login") => held[1].pwres = PwOk

C1_Witness ==
    \E s \in Slots :
        /\ Done(s, "login")
        /\ reqs[s].email = "admin@crown.com"
        /\ ~reqs[s].pwres.ok
        /\ reqs[s].resp = AuthFailure("Invalid credentials")
        /\ held # None /\ held[1].op = "login"

\* C2: a token handed out by login or register, presented unchanged as
\* "Bearer <token>" at a time before its expires_at, is reported valid with
\* the user_id, email, role and expires_at that were signed; a register
\* token verified at once carries the registered email and the role "user".
C2_RoundTrip ==
    \A s \in Slots :
        (Done(s, "verify") /\ reqs[s].how = "genuine"
            /\ reqs[s].vnow < reqs[s].claims0.exp) =>
        LET r == reqs[s] IN
        /\ r.resp = [kind |-> "verify", valid |-> TRUE,
                     user_id |-> r.claims0.user_id, email |-> r.claims0.email,
                     role |-> r.claims0.role, expires_at |-> r.claims0.exp]
        /\ (held # None /\ held[1].token = r.token /\ held[1].op = "register") =>
               (r.resp.email = held[1].email /\ r.resp.role = "user")

C2_Witness ==
    \E s \in Slots :
        /\ Done(s, "verify") /\ reqs[s].how = "genuine"
        /\ held # None /\ held[1].token = reqs[s].token /\ held[1].op = "register"
        /\ reqs[s].vnow = reqs[s].claims0.iat
        /\ reqs[s].resp.valid /\ reqs[s].resp.email = "new@x.com"

\* a request presenting a token that was signed with the verifier's secret and
\* not changed since: the token handed out, or one re-signed with that secret
Signed(r) ==
    \/ r.how = "genuine"
    \/ r.how = "forged" /\ r.forgeKey = r.secret
IsExpiredReply(r) == ~r.resp.valid /\ r.vres.err = "ExpiredSignature"

\* C3 (as claimed): every correctly signed token verified at a time
\* now >= expires_at is rejected as Expired; no leeway is applied.
C3_NoLeeway ==
    \A s \in Slots :
        (Done(s, "verify") /\ Signed(reqs[s])
            /\ reqs[s].vnow >= reqs[s].claims0.exp) => IsExpiredReply(reqs[s])

\* C3 (amended): a correctly signed token is rejected as Expired exactly when
\* now > expires_at + leeway, the leeway being the default of Validation::new
\* (0 or 60 seconds, by the build): it is still accepted at now = expires_at,
\* and every build rejects it once now > expires_at + 60.
C3_ExpiryWithLeeway ==
    \A s \in Slots :
        (Done(s, "verify") /\ Signed(reqs[s])) =>
        LET r == reqs[s] IN
        /\ IsExpiredReply(r) <=> r.vnow > r.claims0.exp + leeway
        /\ ~IsExpiredReply(r) => r.resp.valid
        /\ r.vnow <= r.claims0.exp => r.resp.valid
        /\ r.vnow > r.claims0.exp + 60 => IsExpiredReply(r)

C3_Witness ==
    \E s \in Slots :
        /\ Done(s, "verify") /\ reqs[s].how = "genuine"
        /\ leeway = 60
        /\ reqs[s].vnow = reqs[s].claims0.exp + 61
        /\ IsExpiredReply(reqs[s])

\* C4: whenever the verifier returns claims, the token presented is exactly
\* the token that signing those claims with the verifier's secret produces;
\* a token whose payload or signature was changed, or that was signed with
\* another secret, is refused with InvalidSignature or a malformed-token
\* error.
C4_TamperSensitive ==
    \A s \in Slots :
        (Done(s, "verify") /\ reqs[s].vres # NotCalled) =>
        LET r == reqs[s]
            tampered == \/ r.how \in {"payload", "signature"}
                        \/ r.how = "forged" /\ r.forgeKey # VerifySecret(env)
        IN  /\ r.vres.ok =>
                r.token = JwtEncode(HeaderDefault, r.vres.claims, VerifySecret(env)).token
            /\ r.resp.valid = r.vres.ok
            /\ tampered => (~r.resp.valid
                            /\ r.vres.err \in {"InvalidSignature"} \cup MalformedKinds)

C4_Witness ==
    \E s \in Slots :
        /\ Done(s, "verify") /\ reqs[s].how = "payload"
        /\ reqs[s].vres.err = "InvalidSignature"
        /\ reqs[s].vnow < reqs[s].claims0.exp

\* C5: a header that does not start with "Bearer " gets the header-format
\* reply and the token verifier is not invoked; a header that does start
\* with it has the rest, after the seven characters, passed to the verifier.
C5_BearerPrefix ==
    \A s \in Slots :
        Done(s, "verify") =>
        LET r == reqs[s] IN
        /\ r.how = "no-prefix" =>
              /\ r.resp = VerifyInvalid("Invalid authorization header format")
              /\ r.vres = NotCalled
        /\ r.how # "no-prefix" =>
              /\ r.vres # NotCalled
              /\ r.token = SubSeq(r.header, 8, Len(r.header))
              /\ r.resp # VerifyInvalid("Invalid authorization header format")

C5_Witness ==
    \E s \in Slots :
        /\ Done(s, "verify") /\ reqs[s].how = "no-prefix"
        /\ held # None /\ reqs[s].header = LowerBearer \o held[1].token
        /\ reqs[s].vres = NotCalled /\ ~reqs[s].resp.valid

\* C6 (as claimed): every claims value signed has
\* expires_at = issued_at + 24 hours, and so expires_at > issued_at.
C6_ExpIsIatPlusWindow ==
    held # None =>
        /\ held[1].claims.exp = held[1].claims.iat + ValidityWindow
        /\ held[1].claims.exp > held[1].claims.iat

\* C7 (as claimed): no token is signed for an empty identifier; a register
\* with an empty email never ends in success.
C7_NoEmptyIdentity ==
    /\ held # None => (held[1].claims.email # "" /\ held[1].claims.user_id # "")
    /\ \A s \in Slots :
         (Done(s, "register") /\ reqs[s].email = "") =>
             ~(reqs[s].resp.kind = "auth" /\ reqs[s].resp.success)

\* C8 (as claimed): with an empty secret signing fails, and the request that
\* reached signing is rejected with a server error: no token signed with the
\* empty secret is handed out.
C8_EmptySecretRejected ==
    /\ held # None => held[1].secret # ""
    /\ \A s \in Slots :
         (reqs[s].pc = "done" /\ reqs[s].op \in {"login", "register"}
             /\ reqs[s].exp > 0 /\ SignSecret(env) = "") =>
             reqs[s].resp = Rejection

\* C9: every signing and every verification of the process used one and the
\* same secret, whatever the interleaving, and a token handed out earlier is
\* never refused for its signature.
HasReadSecret(s) ==
    \/ reqs[s].pc = "jwt_iat"
    \/ reqs[s].pc = "done" /\ (reqs[s].exp > 0 \/ reqs[s].vres # NotCalled)
Registering == {s \in Slots : reqs[s].op = "register" /\ reqs[s].pc = "jwt_iat"}
C10_NoEscalation ==
    /\ (held # None /\ held[1].op = "register") =>
          /\ held[1].claims.role = "user"
          /\ held[1].claims.user_id \notin {"admin-id", ""}
          /\ \A s \in Registering : reqs[s].user.id # held[1].claims.user_id
    /\ \A s \in Registering, t \in Registering :
          s # t => reqs[s].user.id # reqs[t].user.id
    /\ \A s \in Slots :
          (Done(s, "register") /\ reqs[s].resp.kind = "auth") =>
              reqs[s].resp.user[1].role = "user"
    /\ (held # None /\ held[1].claims.role = "admin") =>
          /\ held[1].op = "login"
          /\ held[1].email = "admin@crown.com"
          /\ held[1].pwres = PwOk

C10_Witness ==
    \E s \in Registering :
        /\ held # None /\ held[1].op = "register"
        /\ held[1].email = "admin@crown.com"
        /\ held[1].claims.role = "user"
        /\ reqs[s].email = "admin@crown.com"
====
